---- MODULE Spec2Model ----
(***************************************************************************)
(* Model of bqtableschema (main.go): the BigQuery-to-Go struct generator.   *)
(*                                                                         *)
(* Text is modelled line by line: every string the generator concatenates  *)
(* ends in a newline, so a generated text is a sequence of line records.   *)
(* Identifiers supplied by the warehouse (table ids, column names) are Go  *)
(* strings, i.e. sequences of bytes (0..255).  Go type names, import paths  *)
(* and BigQuery field types are TLA+ strings.  An error is the chain of its *)
(* messages (outermost first); the empty chain is the nil error.           *)
(***************************************************************************)
EXTENDS Integers, Sequences, FiniteSets, TLC

VARIABLES
    pc,              \* position of Generate
    tables,          \* getAllTables: the tables appended so far / returned
    idx,             \* Generate: index of the next table of the range loop
    tail,            \* Generate: var tail string
    importPackages,  \* Generate: var importPackages []string
    structCode,      \* Generate: structCode of the last generateTableSchemaCode call
    pkgs,            \* Generate: pkgs of the last generateTableSchemaCode call
    gerr,            \* Generate: err of the last generateTableSchemaCode call
    logs,            \* lines written by log.Printf
    importCode,      \* Generate: importCode
    code,            \* Generate: code (head + importCode + tail)
    genFmt,          \* Generate: genFmt
    generatedCode,   \* Generate: returned generatedCode
    err,             \* Generate: returned err
    failure,         \* the external call of this run that failed ("" while none has)
    env,             \* the process environment (os.Getenv / os.Setenv)
    probe            \* last call of a pure function: its arguments and results

vars == <<pc, tables, idx, tail, importPackages, structCode, pkgs, gerr, logs,
          importCode, code, genFmt, generatedCode, err, failure, env, probe>>

runVars == <<pc, tables, idx, tail, importPackages, structCode, pkgs, gerr, logs,
             importCode, code, genFmt, generatedCode, err, failure>>

(***************************************************************************)
(* Bounds                                                                  *)
(***************************************************************************)
MaxTables == 2
MaxCols == 2
MaxStrLen == 3
MaxPkgs == 3

(***************************************************************************)
(* Helpers                                                                 *)
(***************************************************************************)
NilErr == <<>>

RECURSIVE Perms(_)
Perms(S) ==
    IF S = {} THEN {<<>>}
    ELSE UNION {{<<x>> \o p : p \in Perms(S \ {x})} : x \in S}

Range(s) == {s[i] : i \in 1..Len(s)}

SeqsUpTo(S, n) == UNION {[1..m -> S] : m \in 0..n}

(***************************************************************************)
(* bigquery.FieldType values and the mapper                                *)
(***************************************************************************)
FieldTypes ==
    {"STRING", "BYTES", "INTEGER", "FLOAT", "BOOLEAN", "TIMESTAMP", "RECORD",
     "DATE", "TIME", "DATETIME", "NUMERIC", "GEOGRAPHY",
     "unknownFieldType", "BIGNUMERIC", ""}

Mapped(goType, pkg) == [goType |-> goType, pkg |-> pkg, err |-> NilErr]

Unsupported(bigqueryFieldType) ==
    [goType |-> "", pkg |-> "",
     err |-> <<"bigquery.FieldType not supported. bigquery.FieldType=" \o bigqueryFieldType>>]

\* faulty variant: the pointer type *big.Rat is asked for its package path (it has none)
bigqueryFieldTypeToGoType_ratPkgPath(bigqueryFieldType) ==
    CASE bigqueryFieldType = "BYTES" -> Mapped("[]uint8", "")
      [] bigqueryFieldType = "DATE" -> Mapped("civil.Date", "cloud.google.com/go/civil")
      [] bigqueryFieldType = "TIME" -> Mapped("civil.Time", "cloud.google.com/go/civil")
      [] bigqueryFieldType = "DATETIME" -> Mapped("civil.DateTime", "cloud.google.com/go/civil")
      [] bigqueryFieldType = "TIMESTAMP" -> Mapped("time.Time", "time")
      [] bigqueryFieldType = "NUMERIC" -> Mapped("*big.Rat", "")
      [] bigqueryFieldType = "INTEGER" -> Mapped("int64", "")
      [] bigqueryFieldType = "RECORD" -> Unsupported(bigqueryFieldType)
      [] bigqueryFieldType \in {"STRING", "GEOGRAPHY"} -> Mapped("string", "")
      [] bigqueryFieldType = "BOOLEAN" -> Mapped("bool", "")
      [] bigqueryFieldType = "FLOAT" -> Mapped("float64", "")
      [] OTHER -> Unsupported(bigqueryFieldType)

\* faulty variant: the RECORD case is missing its return and yields a struct type
bigqueryFieldTypeToGoType_record(bigqueryFieldType) ==
    CASE bigqueryFieldType = "BYTES" -> Mapped("[]uint8", "")
      [] bigqueryFieldType = "DATE" -> Mapped("civil.Date", "cloud.google.com/go/civil")
      [] bigqueryFieldType = "TIME" -> Mapped("civil.Time", "cloud.google.com/go/civil")
      [] bigqueryFieldType = "DATETIME" -> Mapped("civil.DateTime", "cloud.google.com/go/civil")
      [] bigqueryFieldType = "TIMESTAMP" -> Mapped("time.Time", "time")
      [] bigqueryFieldType = "NUMERIC" -> Mapped("*big.Rat", "math/big")
      [] bigqueryFieldType = "INTEGER" -> Mapped("int64", "")
      [] bigqueryFieldType = "RECORD" -> Mapped("struct", "")
      [] bigqueryFieldType \in {"STRING", "GEOGRAPHY"} -> Mapped("string", "")
      [] bigqueryFieldType = "BOOLEAN" -> Mapped("bool", "")
      [] bigqueryFieldType = "FLOAT" -> Mapped("float64", "")
      [] OTHER -> Unsupported(bigqueryFieldType)

bigqueryFieldTypeToGoType(bigqueryFieldType) ==
    CASE bigqueryFieldType = "BYTES" -> Mapped("[]uint8", "")
      [] bigqueryFieldType = "DATE" -> Mapped("civil.Date", "cloud.google.com/go/civil")
      [] bigqueryFieldType = "TIME" -> Mapped("civil.Time", "cloud.google.com/go/civil")
      [] bigqueryFieldType = "DATETIME" -> Mapped("civil.DateTime", "cloud.google.com/go/civil")
      [] bigqueryFieldType = "TIMESTAMP" -> Mapped("time.Time", "time")
      [] bigqueryFieldType = "NUMERIC" -> Mapped("*big.Rat", "math/big")
      [] bigqueryFieldType = "INTEGER" -> Mapped("int64", "")
      [] bigqueryFieldType = "RECORD" -> Unsupported(bigqueryFieldType)
      [] bigqueryFieldType \in {"STRING", "GEOGRAPHY"} -> Mapped("string", "")
      [] bigqueryFieldType = "BOOLEAN" -> Mapped("bool", "")
      [] bigqueryFieldType = "FLOAT" -> Mapped("float64", "")
      [] OTHER -> Unsupported(bigqueryFieldType)

(***************************************************************************)
(* capitalizeInitial                                                       *)
(***************************************************************************)
\* The bytes the model draws strings from: 'a', 'A', 'b', '_' and the two
\* bytes 0xC3 0xA9 of the UTF-8 encoding of U+00E9 (e with acute).
Bytes == {97, 65, 98, 95, 195, 169}

\* Go strings handed to the program are valid UTF-8 here: 0xC3 is followed by
\* its continuation byte 0xA9 and 0xA9 only occurs there.
IsValidUTF8(s) ==
    \A i \in 1..Len(s) :
        /\ s[i] = 195 => (i < Len(s) /\ s[i + 1] = 169)
        /\ s[i] = 169 => (i > 1 /\ s[i - 1] = 195)

Strings == {s \in SeqsUpTo(Bytes, MaxStrLen) : IsValidUTF8(s)}

\* strings.ToUpper on the one-byte string s[:1]: an ASCII byte is upper-cased
\* when it is a lower-case letter; a byte >= 0x80 standing alone is invalid
\* UTF-8, which strings.Map decodes as utf8.RuneError and writes out as the
\* three bytes EF BF BD of U+FFFD.
ToUpper(s) ==
    IF Len(s) = 0 THEN <<>>
    ELSE IF s[1] < 128
         THEN IF s[1] >= 97 /\ s[1] <= 122 THEN <<s[1] - 32>> ELSE <<s[1]>>
         ELSE <<239, 191, 189>>

capitalizeInitial(s) ==
    IF Len(s) = 0 THEN <<>>
    ELSE ToUpper(SubSeq(s, 1, 1)) \o SubSeq(s, 2, Len(s))

(***************************************************************************)
(* Text lines                                                              *)
(***************************************************************************)
\* const head: the banner, the go:generate directive and the package clause,
\* each followed by a blank line.
head ==
    <<[k |-> "// Code generated by go run github.com/djeeno/bqtableschema; DO NOT EDIT."],
      [k |-> ""],
      [k |-> "//go:generate go run github.com/djeeno/bqtableschema"],
      [k |-> ""],
      [k |-> "package bqtableschema"],
      [k |-> ""]>>

\* "// " + structName + " is BigQuery Table `" + md.FullID + "` schema struct.\n"
DocLine(structName, fullID) == [k |-> "doc", name |-> structName, fullID |-> fullID]

\* "// Description: " + md.Description + "\n"
DescriptionLine(description) == [k |-> "description", text |-> description]

\* "type " + structName + " struct {\n"
TypeLine(structName) == [k |-> "type", name |-> structName]

\* "\t" + capitalizeInitial(schema.Name) + " " + goTypeStr + " `bigquery:\"" + schema.Name + "\"`\n"
FieldLine(fieldName, goTypeStr, tag) ==
    [k |-> "field", name |-> fieldName, goType |-> goTypeStr, tag |-> tag]

\* "}\n"
CloseLine == [k |-> "}"]

\* "import \"" + pkg + "\"\n"
ImportLine(pkg) == [k |-> "import", pkg |-> pkg]

\* "import (\n"
ImportOpenLine == [k |-> "import ("]

\* "\t\"" + pkg + "\"\n"
ImportGroupLine(pkg) == [k |-> "importgroup", pkg |-> pkg]

\* ")\n"
ImportCloseLine == [k |-> ")"]

\* "\n"
BlankLine == [k |-> ""]

(***************************************************************************)
(* generateTableSchemaCode                                                 *)
(***************************************************************************)
GenError(e) == [code |-> <<>>, pkgs |-> <<>>, err |-> e]

\* faulty variant: a mapper failure returns what was accumulated so far
RECURSIVE SchemaLoop_partial(_, _, _, _)
SchemaLoop_partial(schemas, j, generated, imports) ==
    IF j > Len(schemas)
    THEN [code |-> Append(generated, CloseLine), pkgs |-> imports, err |-> NilErr]
    ELSE LET schema == schemas[j]
             r == bigqueryFieldTypeToGoType(schema.Type)
         IN  IF r.err # NilErr
             THEN [code |-> generated, pkgs |-> imports,
                   err |-> <<"bigqueryFieldTypeToGoType">> \o r.err]
             ELSE SchemaLoop_partial(
                      schemas, j + 1,
                      Append(generated,
                             FieldLine(capitalizeInitial(schema.Name), r.goType, schema.Name)),
                      IF r.pkg # "" THEN Append(imports, r.pkg) ELSE imports)

\* faulty variant: the tag carries the capitalized name
RECURSIVE SchemaLoop_tag(_, _, _, _)
SchemaLoop_tag(schemas, j, generated, imports) ==
    IF j > Len(schemas)
    THEN [code |-> Append(generated, CloseLine), pkgs |-> imports, err |-> NilErr]
    ELSE LET schema == schemas[j]
             r == bigqueryFieldTypeToGoType(schema.Type)
         IN  IF r.err # NilErr
             THEN GenError(<<"bigqueryFieldTypeToGoType">> \o r.err)
             ELSE SchemaLoop_tag(
                      schemas, j + 1,
                      Append(generated,
                             FieldLine(capitalizeInitial(schema.Name), r.goType,
                                       capitalizeInitial(schema.Name))),
                      IF r.pkg # "" THEN Append(imports, r.pkg) ELSE imports)

\* The range loop over md.Schema, from column j on, with generatedCode and
\* importPackages as accumulated before column j, up to the function's return.
RECURSIVE SchemaLoop(_, _, _, _)
SchemaLoop(schemas, j, generated, imports) ==
    IF j > Len(schemas)
    THEN [code |-> Append(generated, CloseLine), pkgs |-> imports, err |-> NilErr]
    ELSE LET schema == schemas[j]
             r == bigqueryFieldTypeToGoType(schema.Type)
         IN  IF r.err # NilErr
             THEN GenError(<<"bigqueryFieldTypeToGoType">> \o r.err)
             ELSE SchemaLoop(
                      schemas, j + 1,
                      Append(generated,
                             FieldLine(capitalizeInitial(schema.Name), r.goType, schema.Name)),
                      IF r.pkg # "" THEN Append(imports, r.pkg) ELSE imports)

\* table.md is the outcome of table.Metadata(ctx) for this table.
generateTableSchemaCode(table) ==
    IF Len(table.TableID) = 0
    THEN GenError(<<"*bigquery.Table.TableID is empty">>)
    ELSE LET structName == capitalizeInitial(table.TableID)
             md == table.md
         IN  IF ~md.ok
             THEN GenError(<<"table.Metadata", "metadata fetch failed">>)
             ELSE SchemaLoop(md.Schema, 1,
                             <<DocLine(structName, md.FullID),
                               DescriptionLine(md.Description),
                               TypeLine(structName)>>,
                             <<>>)

(***************************************************************************)
(* generateImportPackagesCode                                              *)
(***************************************************************************)
\* faulty variant: the switch counts the input list instead of the deduplicated map
generateImportPackagesCode_nodedup(pkgList) ==
    CASE Len(pkgList) = 0 -> {<<>>}
      [] Len(pkgList) = 1 -> {<<ImportLine(pkgList[1]), BlankLine>>}
      [] OTHER ->
            {<<ImportOpenLine>> \o [i \in 1..Len(pkgList) |-> ImportGroupLine(pkgList[i])]
                 \o <<ImportCloseLine, BlankLine>>}

\* The set of texts the function can return: ranging over a Go map visits the
\* keys in an unspecified order.
generateImportPackagesCode(pkgList) ==
    LET importPackagesUniq == Range(pkgList)
    IN  CASE Cardinality(importPackagesUniq) = 0 -> {<<>>}
          [] Cardinality(importPackagesUniq) = 1 ->
                {<<ImportLine(pkg), BlankLine>> : pkg \in importPackagesUniq}
          [] OTHER ->
                {<<ImportOpenLine>> \o [i \in 1..Len(order) |-> ImportGroupLine(order[i])]
                     \o <<ImportCloseLine, BlankLine>> : order \in Perms(importPackagesUniq)}

(***************************************************************************)
(* The dataset: what tableIterator.Next and table.Metadata can deliver      *)
(***************************************************************************)
\* Columns of the modelled dataset: "id" INTEGER, "ts" TIMESTAMP, "d" DATE
\* and "r" RECORD.
Columns ==
    {[Name |-> <<105, 100>>, Type |-> "INTEGER"],
     [Name |-> <<116, 115>>, Type |-> "TIMESTAMP"],
     [Name |-> <<100>>, Type |-> "DATE"],
     [Name |-> <<114>>, Type |-> "RECORD"]}

\* Column names are unique within a table.
Schemas ==
    {sc \in SeqsUpTo(Columns, MaxCols) :
        \A a, b \in 1..Len(sc) : a # b => sc[a].Name # sc[b].Name}

\* The k-th table of the dataset is named "t" followed by the digit k.
TableIDAt(k) == <<116, 48 + k>>

\* "d." followed by the table id; every other table has a description ("x").
MetadataOK(id, k, sc) ==
    [ok |-> TRUE, FullID |-> <<100, 46>> \o id,
     Description |-> IF k % 2 = 0 THEN <<120>> ELSE <<>>, Schema |-> sc]

MetadataFailed == [ok |-> FALSE, FullID |-> <<>>, Description |-> <<>>, Schema |-> <<>>]

\* What the iterator can deliver as k-th table: a table without id (its
\* metadata is never fetched), a table whose metadata fetch fails, or a table
\* with a schema.
TablesAt(k) ==
    {[TableID |-> <<>>, md |-> MetadataFailed],
     [TableID |-> TableIDAt(k), md |-> MetadataFailed]}
    \cup {[TableID |-> TableIDAt(k), md |-> MetadataOK(TableIDAt(k), k, sc)] : sc \in Schemas}

(***************************************************************************)
(* Generate                                                                *)
(***************************************************************************)
\* The environment variables the model follows.  A variable that is unset and
\* one set to the empty string both read as "" through os.Getenv.
EnvNames == {"TEST_ENV_KEY", "OUTPUT_FILE"}

NoBytes == [k |-> "nil"]

NoProbe == [fn |-> "none"]

Init ==
    /\ pc = "getAllTables"
    /\ tables = <<>>
    /\ idx = 1
    /\ tail = <<>>
    /\ importPackages = <<>>
    /\ structCode = <<>>
    /\ pkgs = <<>>
    /\ gerr = NilErr
    /\ logs = <<>>
    /\ importCode = <<>>
    /\ code = <<>>
    /\ genFmt = NoBytes
    /\ generatedCode = NoBytes
    /\ err = NilErr
    /\ failure = ""
    /\ env = [name \in EnvNames |-> ""]
    /\ probe = NoProbe

\* getAllTables: tableIterator.Next() delivers a table, which is appended.
TableIteratorNext ==
    /\ pc = "getAllTables"
    /\ Len(tables) < MaxTables
    /\ \E table \in TablesAt(Len(tables) + 1) : tables' = Append(tables, table)
    /\ UNCHANGED <<pc, idx, tail, importPackages, structCode, pkgs, gerr, logs,
                   importCode, code, genFmt, generatedCode, err, failure, env, probe>>

\* getAllTables: tableIterator.Next() returns iterator.Done; Generate enters its loop.
TableIteratorDone ==
    /\ pc = "getAllTables"
    /\ pc' = "loop"
    /\ UNCHANGED <<tables, idx, tail, importPackages, structCode, pkgs, gerr, logs,
                   importCode, code, genFmt, generatedCode, err, failure, env, probe>>

\* getAllTables: tableIterator.Next() fails; getAllTables returns nil and the
\* error, and Generate returns nil and the wrapped error.
TableIteratorError ==
    /\ pc = "getAllTables"
    /\ tables' = <<>>
    /\ generatedCode' = NoBytes
    /\ err' = <<"getAllTables", "tableIterator.Next", "iterator failed">>
    /\ failure' = "tableIterator.Next"
    /\ pc' = "done"
    /\ UNCHANGED <<idx, tail, importPackages, structCode, pkgs, gerr, logs,
                   importCode, code, genFmt, env, probe>>

\* faulty variant: a failing table ends the loop's work on tail (break instead of continue)
LoopTable_break ==
    /\ pc = "loop"
    /\ idx <= Len(tables)
    /\ LET r == generateTableSchemaCode(tables[idx])
       IN  /\ structCode' = r.code
           /\ pkgs' = r.pkgs
           /\ gerr' = r.err
           /\ IF r.err # NilErr
              THEN /\ logs' = Append(logs, <<"generateTableSchemaCode">> \o r.err)
                   /\ idx' = Len(tables) + 1
                   /\ UNCHANGED <<tail, importPackages>>
              ELSE /\ importPackages' =
                        IF Len(r.pkgs) > 0 THEN importPackages \o r.pkgs ELSE importPackages
                   /\ tail' = tail \o r.code
                   /\ idx' = idx + 1
                   /\ UNCHANGED logs
    /\ UNCHANGED <<pc, tables, importCode, code, genFmt, generatedCode, err, failure, env, probe>>

\* faulty variant: the table's imports replace the accumulated ones
LoopTable_overwrite ==
    /\ pc = "loop"
    /\ idx <= Len(tables)
    /\ LET r == generateTableSchemaCode(tables[idx])
       IN  /\ structCode' = r.code
           /\ pkgs' = r.pkgs
           /\ gerr' = r.err
           /\ IF r.err # NilErr
              THEN /\ logs' = Append(logs, <<"generateTableSchemaCode">> \o r.err)
                   /\ UNCHANGED <<tail, importPackages>>
              ELSE /\ importPackages' = IF Len(r.pkgs) > 0 THEN r.pkgs ELSE importPackages
                   /\ tail' = tail \o r.code
                   /\ UNCHANGED logs
    /\ idx' = idx + 1
    /\ UNCHANGED <<pc, tables, importCode, code, genFmt, generatedCode, err, failure, env, probe>>

\* Generate: one iteration of the range loop over tables.
LoopTable ==
    /\ pc = "loop"
    /\ idx <= Len(tables)
    /\ LET r == generateTableSchemaCode(tables[idx])
       IN  /\ structCode' = r.code
           /\ pkgs' = r.pkgs
           /\ gerr' = r.err
           /\ IF r.err # NilErr
              THEN /\ logs' = Append(logs, <<"generateTableSchemaCode">> \o r.err)
                   /\ UNCHANGED <<tail, importPackages>>
              ELSE /\ importPackages' =
                        IF Len(r.pkgs) > 0 THEN importPackages \o r.pkgs ELSE importPackages
                   /\ tail' = tail \o r.code
                   /\ UNCHANGED logs
    /\ idx' = idx + 1
    /\ UNCHANGED <<pc, tables, importCode, code, genFmt, generatedCode, err, failure, env, probe>>

\* Generate: after the loop, the import block is rendered and the document
\* is combined.
Combine ==
    /\ pc = "loop"
    /\ idx > Len(tables)
    /\ \E ic \in generateImportPackagesCode(importPackages) :
          /\ importCode' = ic
          /\ code' = head \o ic \o tail
    /\ pc' = "format"
    /\ UNCHANGED <<tables, idx, tail, importPackages, structCode, pkgs, gerr, logs,
                   genFmt, generatedCode, err, failure, env, probe>>

\* faulty variant: a formatter failure is ignored and the unformatted text goes on
FormatSource_ignore ==
    /\ pc = "format"
    /\ \E ok \in BOOLEAN :
          /\ genFmt' = [k |-> IF ok THEN "formatted" ELSE "unformatted", src |-> code]
          /\ failure' = IF ok THEN failure ELSE "format.Source"
          /\ pc' = "imports"
          /\ UNCHANGED <<generatedCode, err>>
    /\ UNCHANGED <<tables, idx, tail, importPackages, structCode, pkgs, gerr, logs,
                   importCode, code, env, probe>>

\* Generate: format.Source(gen) either formats the document or fails.
FormatSource ==
    /\ pc = "format"
    /\ \E ok \in BOOLEAN :
          IF ok
          THEN /\ genFmt' = [k |-> "formatted", src |-> code]
               /\ pc' = "imports"
               /\ UNCHANGED <<generatedCode, err, failure>>
          ELSE /\ generatedCode' = NoBytes
               /\ err' = <<"format.Source", "formatter failed">>
               /\ failure' = "format.Source"
               /\ pc' = "done"
               /\ UNCHANGED genFmt
    /\ UNCHANGED <<tables, idx, tail, importPackages, structCode, pkgs, gerr, logs,
                   importCode, code, env, probe>>

\* Generate: imports.Process("", genFmt, nil) either succeeds or fails; its
\* result is returned.
ImportsProcess ==
    /\ pc = "imports"
    /\ \E ok \in BOOLEAN :
          IF ok
          THEN /\ generatedCode' = [k |-> "processed", src |-> genFmt]
               /\ err' = NilErr
               /\ UNCHANGED failure
          ELSE /\ generatedCode' = NoBytes
               /\ err' = <<"imports.Process", "import resolution failed">>
               /\ failure' = "imports.Process"
    /\ pc' = "done"
    /\ UNCHANGED <<tables, idx, tail, importPackages, structCode, pkgs, gerr, logs,
                   importCode, code, genFmt, env, probe>>

Next ==
    \/ TableIteratorNext
    \/ TableIteratorDone
    \/ TableIteratorError
    \/ LoopTable
    \/ Combine
    \/ FormatSource
    \/ ImportsProcess

Spec == Init /\ [][Next]_vars

(***************************************************************************)
(* The environment and getOptOrEnvOrDefault                                *)
(***************************************************************************)
\* os.Getenv: the value of the variable, "" when it is unset or has no name.
Getenv(key) == IF key \in DOMAIN env THEN env[key] ELSE ""

\* faulty variant: the environment is consulted before the option value
getOptOrEnvOrDefault_envFirst(optKey, optValue, envKey, defaultValue) ==
    IF optKey = "" THEN [value |-> "", err |-> <<"optKey is empty">>]
    ELSE IF Getenv(envKey) # "" THEN [value |-> Getenv(envKey), err |-> NilErr]
    ELSE IF optValue # "" THEN [value |-> optValue, err |-> NilErr]
    ELSE IF defaultValue # "" THEN [value |-> defaultValue, err |-> NilErr]
    ELSE [value |-> "",
          err |-> <<"set option -" \o optKey \o ", or set environment variable " \o envKey>>]

getOptOrEnvOrDefault(optKey, optValue, envKey, defaultValue) ==
    IF optKey = "" THEN [value |-> "", err |-> <<"optKey is empty">>]
    ELSE IF optValue # "" THEN [value |-> optValue, err |-> NilErr]
    ELSE LET envValue == Getenv(envKey)
         IN  IF envValue # "" THEN [value |-> envValue, err |-> NilErr]
             ELSE IF defaultValue # "" THEN [value |-> defaultValue, err |-> NilErr]
             ELSE [value |-> "",
                   err |-> <<"set option -" \o optKey
                             \o ", or set environment variable " \o envKey>>]

\* os.Setenv(name, value)
Setenv ==
    /\ \E name \in EnvNames, value \in {"", "testEnvValue"} :
          env' = [env EXCEPT ![name] = value]
    /\ UNCHANGED <<runVars, probe>>

\* os.Unsetenv(name)
Unsetenv ==
    /\ \E name \in EnvNames : env' = [env EXCEPT ![name] = ""]
    /\ UNCHANGED <<runVars, probe>>

(***************************************************************************)
(* Calls of the pure functions on inputs drawn from bounded sets           *)
(***************************************************************************)
ImportPaths == {"time", "math/big", "cloud.google.com/go/civil"}

CallBigqueryFieldTypeToGoType ==
    /\ \E t \in FieldTypes :
          probe' = [fn |-> "bigqueryFieldTypeToGoType", arg |-> t,
                    ret |-> bigqueryFieldTypeToGoType(t)]
    /\ UNCHANGED <<runVars, env>>

CallCapitalizeInitial ==
    /\ \E s \in Strings :
          probe' = [fn |-> "capitalizeInitial", arg |-> s,
                    ret |-> capitalizeInitial(s),
                    again |-> capitalizeInitial(capitalizeInitial(s))]
    /\ UNCHANGED <<runVars, env>>

CallGenerateImportPackagesCode ==
    /\ \E list \in SeqsUpTo(ImportPaths, MaxPkgs) :
          \E out \in generateImportPackagesCode(list) :
             probe' = [fn |-> "generateImportPackagesCode", arg |-> list, ret |-> out]
    /\ UNCHANGED <<runVars, env>>

CallGetOptOrEnvOrDefault ==
    /\ \E optKey \in {"", "testOptKey"}, optValue \in {"", "testOptValue"},
          envKey \in EnvNames \cup {""}, defaultValue \in {"", "testDefaultValue"} :
          probe' = [fn |-> "getOptOrEnvOrDefault",
                    optKey |-> optKey, optValue |-> optValue, envKey |-> envKey,
                    defaultValue |-> defaultValue, envValue |-> Getenv(envKey),
                    ret |-> getOptOrEnvOrDefault(optKey, optValue, envKey, defaultValue)]
    /\ UNCHANGED <<runVars, env>>

NextPure ==
    \/ Setenv
    \/ Unsetenv
    \/ CallBigqueryFieldTypeToGoType
    \/ CallCapitalizeInitial
    \/ CallGenerateImportPackagesCode
    \/ CallGetOptOrEnvOrDefault

SpecPure == Init /\ [][NextPure]_vars

(***************************************************************************)
(* What the claims expect, stated independently of the operators above     *)
(***************************************************************************)
SupportedTypes ==
    {"STRING", "GEOGRAPHY", "BYTES", "INTEGER", "FLOAT", "BOOLEAN", "TIMESTAMP",
     "DATE", "TIME", "DATETIME", "NUMERIC"}

\* The mapping table: target type name and import reference ("" for none).
MappingTable ==
    [t \in SupportedTypes |->
        CASE t = "STRING" -> <<"string", "">>
          [] t = "GEOGRAPHY" -> <<"string", "">>
          [] t = "BYTES" -> <<"[]uint8", "">>
          [] t = "INTEGER" -> <<"int64", "">>
          [] t = "FLOAT" -> <<"float64", "">>
          [] t = "BOOLEAN" -> <<"bool", "">>
          [] t = "TIMESTAMP" -> <<"time.Time", "time">>
          [] t = "DATE" -> <<"civil.Date", "cloud.google.com/go/civil">>
          [] t = "TIME" -> <<"civil.Time", "cloud.google.com/go/civil">>
          [] t = "DATETIME" -> <<"civil.DateTime", "cloud.google.com/go/civil">>
          [] t = "NUMERIC" -> <<"*big.Rat", "math/big">>]

\* A string with its first character (not byte) upper-cased: U+00E9, encoded
\* C3 A9, becomes U+00C9, encoded C3 89.
UpperFirstCharacter(s) ==
    IF Len(s) = 0 THEN <<>>
    ELSE IF s[1] >= 97 /\ s[1] <= 122 THEN <<s[1] - 32>> \o SubSeq(s, 2, Len(s))
    ELSE IF Len(s) >= 2 /\ s[1] = 195 /\ s[2] = 169 THEN <<195, 137>> \o SubSeq(s, 3, Len(s))
    ELSE s

HasUnsupportedColumn(table) ==
    /\ table.md.ok
    /\ \E j \in 1..Len(table.md.Schema) : table.md.Schema[j].Type \notin SupportedTypes

MetadataFetchFails(table) == Len(table.TableID) > 0 /\ ~table.md.ok

\* The tables whose struct generation fails.
Fails(table) ==
    Len(table.TableID) = 0 \/ MetadataFetchFails(table) \/ HasUnsupportedColumn(table)

ExpectedStruct(table) ==
    <<DocLine(UpperFirstCharacter(table.TableID), table.md.FullID),
      DescriptionLine(table.md.Description),
      TypeLine(UpperFirstCharacter(table.TableID))>>
    \o [j \in 1..Len(table.md.Schema) |->
          FieldLine(UpperFirstCharacter(table.md.Schema[j].Name),
                    MappingTable[table.md.Schema[j].Type][1],
                    table.md.Schema[j].Name)]
    \o <<CloseLine>>

\* The structs of the first n tables that do not fail, in enumeration order.
RECURSIVE ExpectedTail(_)
ExpectedTail(n) ==
    IF n = 0 THEN <<>>
    ELSE ExpectedTail(n - 1)
         \o (IF Fails(tables[n]) THEN <<>> ELSE ExpectedStruct(tables[n]))

NumFailing(n) == Cardinality({i \in 1..n : Fails(tables[i])})

Combined == pc \in {"format", "imports"} \/ (pc = "done" /\ failure # "tableIterator.Next")

\* The number of tables the range loop has been through.
Processed ==
    IF pc = "getAllTables" THEN 0 ELSE IF pc = "loop" THEN idx - 1 ELSE Len(tables)

NoMetadataFailure == \A i \in 1..Len(tables) : ~MetadataFetchFails(tables[i])

(***************************************************************************)
(* Claims                                                                  *)
(***************************************************************************)
\* C1: for every supported field type bigqueryFieldTypeToGoType returns no
\* error and exactly the pair of the mapping table; the import reference is
\* non-empty exactly for TIMESTAMP, DATE, TIME, DATETIME and NUMERIC.
C1_SupportedMapping ==
    (probe.fn = "bigqueryFieldTypeToGoType" /\ probe.arg \in SupportedTypes) =>
        /\ probe.ret.err = NilErr
        /\ probe.ret.goType = MappingTable[probe.arg][1]
        /\ probe.ret.pkg = MappingTable[probe.arg][2]
        /\ (probe.ret.pkg # "") <=>
              (probe.arg \in {"TIMESTAMP", "DATE", "TIME", "DATETIME", "NUMERIC"})

C1_Witness ==
    /\ probe.fn = "bigqueryFieldTypeToGoType"
    /\ probe.arg = "NUMERIC"
    /\ probe.ret.goType = "*big.Rat"
    /\ probe.ret.pkg = "math/big"

\* C2: for RECORD and every value that is not a supported type the mapper
\* returns a non-nil error with empty type name and empty import reference;
\* it returns an error exactly for those inputs and a type name otherwise.
C2_UnsupportedError ==
    probe.fn = "bigqueryFieldTypeToGoType" =>
        /\ (probe.arg \notin SupportedTypes) =>
              (probe.ret.err # NilErr /\ probe.ret.goType = "" /\ probe.ret.pkg = "")
        /\ (probe.ret.err # NilErr) <=> (probe.arg \notin SupportedTypes)
        /\ (probe.ret.err = NilErr) => probe.ret.goType # ""

C2_Witness ==
    /\ probe.fn = "bigqueryFieldTypeToGoType"
    /\ probe.arg = "RECORD"
    /\ probe.ret.err # NilErr
    /\ probe.ret.goType = ""

\* C3: when no metadata fetch fails, a table with an unsupported column type
\* or an empty identifier is skipped (logged, no struct) and the loop goes on:
\* the combined document is the header, the import block and then the struct
\* of every other table, once each, in enumeration order; it is what a
\* successful run returns (formatted and import-resolved).
C3_SkipAndContinue ==
    NoMetadataFailure =>
        /\ (pc = "loop") =>
              (tail = ExpectedTail(idx - 1) /\ Len(logs) = NumFailing(idx - 1))
        /\ Combined =>
              /\ code = head \o importCode \o ExpectedTail(Len(tables))
              /\ importCode \in generateImportPackagesCode(importPackages)
              /\ Len(logs) = NumFailing(Len(tables))
        /\ (pc = "done" /\ failure = "") =>
              /\ err = NilErr
              /\ generatedCode = [k |-> "processed", src |-> [k |-> "formatted", src |-> code]]

C3_Witness ==
    /\ pc = "done"
    /\ failure = ""
    /\ NoMetadataFailure
    /\ Len(tables) = 2
    /\ HasUnsupportedColumn(tables[1])
    /\ ~Fails(tables[2])
    /\ Len(logs) = 1
    /\ err = NilErr
    /\ generatedCode.src.src = head \o importCode \o ExpectedStruct(tables[2])

\* C4 as stated: a failure of any external collaborator - enumeration, a
\* table's metadata fetch, formatting, import resolution - is fatal to the
\* run: Generate returns an error and no document.
C4_AllCollaboratorFailuresFatal ==
    (pc = "done" /\ (failure # "" \/ ~NoMetadataFailure)) =>
        (err # NilErr /\ generatedCode = NoBytes)

\* C4 amended: a failure of table enumeration, of source formatting or of
\* import resolution ends the run with an error and no document and is never
\* logged as a skip; a failure of a table's metadata fetch is logged, that
\* table is skipped, and the run returns a document unless one of the other
\* three fails.
C4_FatalExceptMetadata ==
    /\ (failure # "") =>
          /\ pc = "done"
          /\ err # NilErr
          /\ err[1] \in {"getAllTables", "format.Source", "imports.Process"}
          /\ generatedCode = NoBytes
    /\ Len(logs) = NumFailing(Processed)
    /\ \A i \in 1..Len(logs) :
          logs[i][2] \in {"table.Metadata", "bigqueryFieldTypeToGoType",
                          "*bigquery.Table.TableID is empty"}
    /\ (pc = "done" /\ failure = "") => (err = NilErr /\ generatedCode # NoBytes)

C4_Witness ==
    /\ pc = "done"
    /\ failure = ""
    /\ Len(tables) = 2
    /\ MetadataFetchFails(tables[1])
    /\ ~Fails(tables[2])
    /\ logs = <<<<"generateTableSchemaCode", "table.Metadata", "metadata fetch failed">>>>
    /\ err = NilErr
    /\ generatedCode # NoBytes

\* The table of the last generateTableSchemaCode call.
LastTable == tables[idx - 1]

Called == pc # "getAllTables" /\ idx > 1 /\ idx - 1 <= Len(tables)

\* C5: whenever generateTableSchemaCode returns an error (empty identifier,
\* or a mapper failure at any column position) it returns an empty struct
\* text and an empty import list, and it does return an error in those cases.
C5_NoPartialOutput ==
    Called =>
        /\ (gerr # NilErr) => (structCode = <<>> /\ pkgs = <<>>)
        /\ (Len(LastTable.TableID) = 0 \/ HasUnsupportedColumn(LastTable)) => gerr # NilErr

C5_Witness ==
    /\ Called
    /\ HasUnsupportedColumn(LastTable)
    /\ Len(LastTable.md.Schema) = 2
    /\ LastTable.md.Schema[1].Type = "TIMESTAMP"
    /\ LastTable.md.Schema[2].Type = "RECORD"
    /\ gerr # NilErr
    /\ structCode = <<>>
    /\ pkgs = <<>>

\* C6: generateImportPackagesCode renders by the number of distinct
\* references of its input: none -> the empty text; one -> a single import
\* line and a blank line; two or more -> "import (", one line per distinct
\* reference (each exactly once), ")" and a blank line.
C6_ImportRendering ==
    probe.fn = "generateImportPackagesCode" =>
        LET distinct == Range(probe.arg)
            n == Cardinality(distinct)
            out == probe.ret
        IN  /\ (n = 0) => out = <<>>
            /\ (n = 1) => \E p \in distinct : out = <<ImportLine(p), BlankLine>>
            /\ (n >= 2) =>
                  /\ Len(out) = n + 3
                  /\ out[1] = ImportOpenLine
                  /\ out[n + 2] = ImportCloseLine
                  /\ out[n + 3] = BlankLine
                  /\ \A p \in distinct :
                        Cardinality({i \in 2..(n + 1) : out[i] = ImportGroupLine(p)}) = 1

C6_Witness ==
    /\ probe.fn = "generateImportPackagesCode"
    /\ probe.arg = <<"time", "math/big", "time">>
    /\ Len(probe.ret) = 5
    /\ probe.ret[2] = ImportGroupLine("math/big")
    /\ probe.ret[3] = ImportGroupLine("time")

\* C7: for a table with a non-empty identifier, fetched metadata and only
\* supported column types, generateTableSchemaCode returns no error and the
\* two doc-comment lines, the struct opening, one field line per column in
\* column order (capitalized name, mapped type, tag with the original name)
\* and the struct close; with zero columns the body is empty.
C7_StructText ==
    (Called /\ ~Fails(LastTable)) =>
        /\ gerr = NilErr
        /\ structCode = ExpectedStruct(LastTable)
        /\ Len(structCode) = Len(LastTable.md.Schema) + 4

C7_Witness ==
    /\ Called
    /\ ~Fails(LastTable)
    /\ Len(LastTable.md.Schema) = 2
    /\ gerr = NilErr
    /\ structCode[4] = FieldLine(<<73, 100>>, "int64", <<105, 100>>)
    /\ structCode[5] = FieldLine(<<84, 115>>, "time.Time", <<116, 115>>)
    /\ structCode[6] = CloseLine

\* C8: capitalizeInitial maps "" to "", upper-cases the first character and
\* leaves the rest unchanged (the length is preserved), returns an already
\* capitalized input unchanged, and is idempotent.
C8_CapitalizeInitial ==
    probe.fn = "capitalizeInitial" =>
        /\ (probe.arg = <<>>) => probe.ret = <<>>
        /\ probe.ret = UpperFirstCharacter(probe.arg)
        /\ Len(probe.ret) = Len(probe.arg)
        /\ (UpperFirstCharacter(probe.arg) = probe.arg) => probe.ret = probe.arg
        /\ probe.again = probe.ret

\* C9: getOptOrEnvOrDefault with a non-empty option key returns the first
\* non-empty of option value, environment value and default, without error;
\* it returns an error and "" when all three are empty and whenever the
\* option key is empty.
C9_Precedence ==
    probe.fn = "getOptOrEnvOrDefault" =>
        LET r == probe.ret
        IN  /\ (probe.optKey # "" /\ probe.optValue # "") =>
                  (r.value = probe.optValue /\ r.err = NilErr)
            /\ (probe.optKey # "" /\ probe.optValue = "" /\ probe.envValue # "") =>
                  (r.value = probe.envValue /\ r.err = NilErr)
            /\ (probe.optKey # "" /\ probe.optValue = "" /\ probe.envValue = ""
                  /\ probe.defaultValue # "") =>
                  (r.value = probe.defaultValue /\ r.err = NilErr)
            /\ (probe.optKey = ""
                  \/ (probe.optValue = "" /\ probe.envValue = "" /\ probe.defaultValue = "")) =>
                  (r.value = "" /\ r.err # NilErr)

C9_Witness ==
    /\ probe.fn = "getOptOrEnvOrDefault"
    /\ probe.optKey = "testOptKey"
    /\ probe.optValue = "testOptValue"
    /\ probe.envKey = "TEST_ENV_KEY"
    /\ env["TEST_ENV_KEY"] = "testEnvValue"
    /\ probe.envValue = "testEnvValue"
    /\ probe.defaultValue = "testDefaultValue"
    /\ probe.ret.value = "testOptValue"

\* The import references the columns of the tables in the document need.
NeededImports ==
    UNION {{MappingTable[tables[i].md.Schema[j].Type][2] : j \in 1..Len(tables[i].md.Schema)} :
              i \in {n \in 1..Len(tables) : ~Fails(tables[n])}} \ {""}

ImportLinesOf(text, p) ==
    {i \in 1..Len(text) : text[i] \in {ImportLine(p), ImportGroupLine(p)}}

\* C10: the import block of the combined document holds exactly the import
\* references needed by the tables whose struct is in the document, each
\* once; a skipped table contributes none.
C10_ImportsOfDocument ==
    Combined =>
        /\ \A p \in ImportPaths :
              Cardinality(ImportLinesOf(importCode, p)) = (IF p \in NeededImports THEN 1 ELSE 0)
        /\ \A i \in 1..Len(importCode) :
              importCode[i].k \in {"import", "importgroup"} =>
                 importCode[i].pkg \in NeededImports
        /\ (NeededImports = {}) <=> (importCode = <<>>)

C10_Witness ==
    /\ Combined
    /\ Len(tables) = 2
    /\ HasUnsupportedColumn(tables[1])
    /\ tables[1].md.Schema[1].Type = "TIMESTAMP"
    /\ ~Fails(tables[2])
    /\ NeededImports = {"cloud.google.com/go/civil"}
    /\ importCode = <<ImportLine("cloud.google.com/go/civil"), BlankLine>>

====
